---- MODULE Spec2Model ----
(***************************************************************************)
(* Model of build_docs.py: the orchestration loop of main, build_one,      *)
(* git_clone, translation_branch, locate_nearest_version, changed_files    *)
(* and copy_build_to_webroot.                                              *)
(*                                                                         *)
(* Strings whose characters matter (version names, branch listing lines)   *)
(* are sequences of one-character strings, so that parsing, formatting     *)
(* and the lexicographic order of a listing are computed, not assumed.     *)
(***************************************************************************)
EXTENDS Integers, Sequences, FiniteSets, TLC

VARIABLES
    \* inputs and result of one call of locate_nearest_version
    matchAvailable, matchTarget, matchFound,
    \* arguments and result of one call of changed_files
    diffLeft, diffRight, diffChanged,
    \* copy_build_to_webroot called again for one unit: its arguments, the
    \* build tree, the files of the target, and the calls made so far
    pubArgs, pubBuild, pubTarget, pubCalls,
    \* argument and result of one call of pep_545_tag_to_gettext_tag
    tagIn, tagOut,
    \* main: the parsed command line
    args,
    \* main: the positions of the two loops (indexes into branches_to_do and
    \* args.languages) and where the unit in progress stands
    branch_i, language_i, pc,
    \* main: what became of each unit, and how often build_one was entered
    status, attempts,
    \* the exception the unit in progress raised to main ("" when none)
    error,
    \* The directories of the unit in progress.  Every path is keyed by the
    \* unit's version and language (checkout, locale_clone_dir, target), so
    \* the directories of two units are distinct and only those of the unit
    \* in progress are held.
    remote, locale_clone_dir, checkout, build, target,
    \* the most recent call of git_clone
    sync,
    \* translation_branch: the branches it kept and what it returned
    branches, translation,
    \* build_one: outcome of make; copy_build_to_webroot: changed, purge
    make, changed, purge,
    \* copy_build_to_webroot: what became of the changes of group and mode
    \* of the target directories
    prepare

matchVars == <<matchAvailable, matchTarget, matchFound>>

diffVars == <<diffLeft, diffRight, diffChanged>>

pubVars == <<pubArgs, pubBuild, pubTarget, pubCalls>>

tagVars == <<tagIn, tagOut>>

mainVars ==
    <<args, branch_i, language_i, pc, status, attempts, error, remote,
      locale_clone_dir, checkout, build, target, sync, branches, translation,
      make, changed, purge, prepare>>

vars == <<matchVars, diffVars, pubVars, tagVars, mainVars>>

(***************************************************************************)
(* Bounds of the model                                                     *)
(***************************************************************************)
\* number of entries of the BRANCHES table that are taken into the run
NumBranches == 2
\* longest list of available versions given to locate_nearest_version
MaxAvail == 3
\* largest minor number of the versions drawn as inputs of the matcher
MaxMinor == 10
\* number of distinct contents a file of a directory tree can have
NumContents == 2

\* how often copy_build_to_webroot is called in succession for one unit
MaxPublishes == 2

\* the longest tag pep_545_tag_to_gettext_tag is called on, and the number
\* of calls on one tag
MaxTagLen == 5
MaxTransforms == 2

(***************************************************************************)
(* Characters and strings                                                  *)
(***************************************************************************)
DigitChars == <<"0", "1", "2", "3", "4", "5", "6", "7", "8", "9">>

IsDigit(c) == \E i \in 1..10 : DigitChars[i] = c

DigitVal(c) == (CHOOSE i \in 1..10 : DigitChars[i] = c) - 1

\* code points of the characters that occur in the model (ASCII)
Ord(c) ==
    CASE c = " " -> 32
      [] c = "-" -> 45
      [] c = "." -> 46
      [] c = "/" -> 47
      [] IsDigit(c) -> 48 + DigitVal(c)
      [] c = ">" -> 62
      [] c = "A" -> 65
      [] c = "D" -> 68
      [] c = "E" -> 69
      [] c = "H" -> 72
      [] c = "a" -> 97
      [] c = "e" -> 101
      [] c = "g" -> 103
      [] c = "i" -> 105
      [] c = "m" -> 109
      [] c = "n" -> 110
      [] c = "o" -> 111
      [] c = "r" -> 114
      [] c = "s" -> 115
      [] c = "t" -> 116

\* int(part) of a string of decimal digits
RECURSIVE ParseInt(_)
ParseInt(s) ==
    IF Len(s) = 0 THEN 0
    ELSE 10 * ParseInt(SubSeq(s, 1, Len(s) - 1)) + DigitVal(s[Len(s)])

\* str(part) of a natural number
RECURSIVE IntToStr(_)
IntToStr(n) ==
    IF n < 10 THEN <<DigitChars[n + 1]>>
    ELSE IntToStr(n \div 10) \o <<DigitChars[(n % 10) + 1]>>

\* s.split(sep) for a one-character separator
RECURSIVE Split(_, _)
Split(s, sep) ==
    IF \A i \in 1..Len(s) : s[i] # sep THEN <<s>>
    ELSE LET i == CHOOSE k \in 1..Len(s) :
                      s[k] = sep /\ \A j \in 1..(k - 1) : s[j] # sep
         IN  <<SubSeq(s, 1, i - 1)>> \o Split(SubSeq(s, i + 1, Len(s)), sep)

\* sep.join(parts)
RECURSIVE Join(_, _)
Join(parts, sep) ==
    IF Len(parts) = 0 THEN <<>>
    ELSE IF Len(parts) = 1 THEN parts[1]
    ELSE parts[1] \o <<sep>> \o Join(Tail(parts), sep)

(***************************************************************************)
(* VersionMatcher: locate_nearest_version                                  *)
(***************************************************************************)
version_to_tuple(version) ==
    LET parts == Split(version, ".")
    IN  [i \in 1..Len(parts) |-> ParseInt(parts[i])]

tuple_to_version(version_tuple) ==
    Join([i \in 1..Len(version_tuple) |-> IntToStr(version_tuple[i])], ".")

\* Python's a < b on tuples of integers
RECURSIVE TupleLess(_, _)
TupleLess(a, b) ==
    IF Len(a) = 0 THEN Len(b) > 0
    ELSE IF Len(b) = 0 THEN FALSE
    ELSE IF a[1] # b[1] THEN a[1] < b[1]
    ELSE TupleLess(Tail(a), Tail(b))

TupleLeq(a, b) == a = b \/ TupleLess(a, b)

\* bisect.bisect_left(a, x, lo, hi) with 0-based lo, hi as in the library
RECURSIVE bisect_loop(_, _, _, _)
bisect_loop(a, x, lo, hi) ==
    IF lo < hi
    THEN LET mid == (lo + hi) \div 2
         IN  IF TupleLess(a[mid + 1], x)
             THEN bisect_loop(a, x, mid + 1, hi)
             ELSE bisect_loop(a, x, lo, mid)
    ELSE lo

\* a mutation of bisect: the search of bisect_right
RECURSIVE bisect_right_loop(_, _, _, _)
bisect_right_loop(a, x, lo, hi) ==
    IF lo < hi
    THEN LET mid == (lo + hi) \div 2
         IN  IF TupleLess(x, a[mid + 1])
             THEN bisect_right_loop(a, x, lo, mid)
             ELSE bisect_right_loop(a, x, mid + 1, hi)
    ELSE lo

bisect_mutant(a, x) == bisect_right_loop(a, x, 0, Len(a))

bisect(a, x) == bisect_loop(a, x, 0, Len(a))

\* The result is a record: exc is "" on a normal return (value is the
\* returned version string) and the exception's name otherwise.
locate_nearest_version(available_versions, target_version) ==
    LET available_versions_tuples ==
            [i \in 1..Len(available_versions) |->
                version_to_tuple(available_versions[i])]
        target_version_tuple == version_to_tuple(target_version)
        index == bisect(available_versions_tuples, target_version_tuple)
        n == Len(available_versions_tuples)
    IN  IF index < n
        THEN [exc |-> "",
              value |-> tuple_to_version(available_versions_tuples[index + 1])]
        ELSE IF n > 0
        THEN [exc |-> "",
              value |-> tuple_to_version(available_versions_tuples[n])]
        ELSE [exc |-> "IndexError", value |-> <<>>]

(***************************************************************************)
(* Directory trees and changed_files                                       *)
(*                                                                         *)
(* A tree is a function from the relative paths of its regular files       *)
(* (sequences of names) to their contents; a name is a directory of the    *)
(* tree when some file lies below it.                                      *)
(***************************************************************************)
IsPrefix(base, path) ==
    Len(base) <= Len(path) /\ SubSeq(path, 1, Len(base)) = base

\* os.listdir of the directory `base` of `tree`
NamesAt(tree, base) ==
    {path[Len(base) + 1] :
        path \in {q \in DOMAIN tree : Len(q) > Len(base) /\ IsPrefix(base, q)}}

IsFileAt(tree, base, name) == (base \o <<name>>) \in DOMAIN tree

\* filecmp.dircmp(...).diff_files: the names that are regular files on both
\* sides and whose contents differ
dircmp_diff_files(left, right, base) ==
    {name \in NamesAt(left, base) \cap NamesAt(right, base) :
        /\ IsFileAt(left, base, name)
        /\ IsFileAt(right, base, name)
        /\ left[base \o <<name>>] # right[base \o <<name>>]}

\* filecmp.dircmp(...).subdirs: the names that are directories on both sides
dircmp_subdirs(left, right, base) ==
    {name \in NamesAt(left, base) \cap NamesAt(right, base) :
        ~IsFileAt(left, base, name) /\ ~IsFileAt(right, base, name)}

RECURSIVE traverse(_, _, _)
traverse(left, right, base) ==
    {base \o <<file>> : file \in dircmp_diff_files(left, right, base)}
    \cup UNION {traverse(left, right, base \o <<dir>>) :
                    dir \in dircmp_subdirs(left, right, base)}

\* the result as the set of its paths, each relative to left
changed_files(left, right) == traverse(left, right, <<>>)


(***************************************************************************)
(* Configuration tables                                                    *)
(***************************************************************************)
Master == <<"m", "a", "s", "t", "e", "r">>

En == <<"e", "n">>

Fr == <<"f", "r">>

\* the BRANCHES table: version, git branch, isdev
AllBranches ==
    << [version |-> <<"3", ".", "6">>, git_branch |-> <<"3", ".", "6">>, isdev |-> FALSE],
       [version |-> <<"3", ".", "7">>, git_branch |-> <<"3", ".", "7">>, isdev |-> FALSE],
       [version |-> <<"3", ".", "8">>, git_branch |-> <<"3", ".", "8">>, isdev |-> FALSE],
       [version |-> <<"3", ".", "9">>, git_branch |-> <<"3", ".", "9">>, isdev |-> TRUE],
       [version |-> <<"3", ".", "1", "0">>, git_branch |-> Master, isdev |-> TRUE] >>

\* the run is given the last NumBranches entries of the table
BRANCHES ==
    SubSeq(AllBranches, Len(AllBranches) - NumBranches + 1, Len(AllBranches))

(***************************************************************************)
(* shell_out and git_clone                                                 *)
(***************************************************************************)
\* shell_out runs one command.  When the command exits nonzero
\* (CalledProcessError) the handler reports and logs it and falls off the
\* end of the function: nothing is raised and None is returned.
shell_out(cmd, ok) == [cmd |-> cmd, ok |-> ok, raised |-> FALSE]

\* an operating system call of the script itself (shutil, os)
os_call(cmd) == [cmd |-> cmd, ok |-> TRUE, raised |-> FALSE]

\* the states of a working copy directory
Absent == [kind |-> "absent", branch |-> <<>>, fresh |-> FALSE]

Plain == [kind |-> "plain", branch |-> <<>>, fresh |-> FALSE]

\* a working copy with .git, its current branch, and whether its content
\* is the remote tip of that branch
Repo(branch, fresh) == [kind |-> "repo", branch |-> branch, fresh |-> fresh]

\* the outcomes (exit status zero or not) of the git commands of one call
Outcomes == [fetch : BOOLEAN, checkout : BOOLEAN, reset : BOOLEAN,
             clone : BOOLEAN, checkout_clone : BOOLEAN]

\* lines 168-173: fetch, then checkout and hard reset when a branch is given.
\* The result holds the commands run, the directory and whether a command
\* raised CalledProcessError.
git_update(directory, branch, out) ==
    LET fetch == shell_out("fetch", out.fetch)
        co == shell_out("checkout", out.checkout)
        after_co ==
            IF co.ok /\ directory.branch # branch
            THEN Repo(branch, FALSE)
            ELSE directory
        rs == shell_out("reset", out.reset)
        after_rs ==
            IF rs.ok
            THEN [after_co EXCEPT
                    !.fresh = after_co.branch = branch
                              /\ (fetch.ok \/ after_co.fresh)]
            ELSE after_co
    IN  IF fetch.raised \/ branch = <<>>
        THEN [dir |-> directory, cmds |-> <<fetch>>, raised |-> fetch.raised]
        ELSE IF co.raised
        THEN [dir |-> after_co, cmds |-> <<fetch, co>>, raised |-> TRUE]
        ELSE [dir |-> after_rs, cmds |-> <<fetch, co, rs>>, raised |-> rs.raised]

\* lines 175-183: remove the directory, recreate it, clone, check out.
\* head is the branch the remote's HEAD names.
git_fresh_clone(directory, branch, head, out) ==
    LET rm == IF directory.kind # "absent" THEN <<os_call("rmtree")>> ELSE <<>>
        mk == os_call("makedirs")
        cl == shell_out("clone", out.clone)
        after_cl == IF cl.ok THEN Repo(head, TRUE) ELSE Plain
        \* git checkout in a directory that is no working copy fails
        co == shell_out("checkout", cl.ok /\ out.checkout_clone)
        after_co == IF co.ok THEN Repo(branch, TRUE) ELSE after_cl
    IN  IF cl.raised \/ branch = <<>>
        THEN [dir |-> after_cl, cmds |-> rm \o <<mk, cl>>, raised |-> cl.raised]
        ELSE [dir |-> after_co, cmds |-> rm \o <<mk, cl, co>>, raised |-> co.raised]

\* A mutation of git_clone: the test for .git is missing, so the update is
\* tried on any directory.
git_clone_mutant(directory, branch, head, out) ==
    LET update == git_update(directory, branch, out)
    IN  [dir |-> update.dir, cmds |-> update.cmds, removed |-> FALSE,
         exc |-> ""]

\* git_clone(repository, directory, branch): the directory afterwards, the
\* commands run in order with their outcomes, whether the directory was
\* removed on the way, and the exception raised to the caller ("" for a
\* normal return).
git_clone(directory, branch, head, out) ==
    LET is_repo == directory.kind = "repo"
        update == git_update(directory, branch, out)
        handled == ~is_repo \/ update.raised
        start == IF is_repo THEN update.dir ELSE directory
        clone == git_fresh_clone(start, branch, head, out)
    IN  IF ~handled
        THEN [dir |-> update.dir, cmds |-> update.cmds, removed |-> FALSE,
              exc |-> ""]
        ELSE [dir |-> clone.dir,
              cmds |-> (IF is_repo THEN update.cmds ELSE <<>>) \o clone.cmds,
              removed |-> start.kind # "absent",
              exc |-> IF clone.raised THEN "CalledProcessError" ELSE ""]

(***************************************************************************)
(* translation_branch: the listing of git branch -r and its filter         *)
(***************************************************************************)
Origin == <<"o", "r", "i", "g", "i", "n", "/">>

HeadRef == <<"H", "E", "A", "D">>

\* Python's a < b on strings
RECURSIVE LexLess(_, _)
LexLess(a, b) ==
    IF Len(a) = 0 THEN Len(b) > 0
    ELSE IF Len(b) = 0 THEN FALSE
    ELSE IF a[1] # b[1] THEN Ord(a[1]) < Ord(b[1])
    ELSE LexLess(Tail(a), Tail(b))

RECURSIVE SortedByName(_)
SortedByName(names) ==
    IF names = {} THEN <<>>
    ELSE LET first == CHOOSE n \in names : \A m \in names \ {n} : LexLess(n, m)
         IN  <<first>> \o SortedByName(names \ {first})

\* The output of git branch -r in a clone of a remote with the given
\* branches and HEAD, already cut into lines: one line per remote-tracking
\* ref in the order of the ref names, the symbolic ref origin/HEAD among
\* them, and the empty string after the final newline.
git_branch_r(repository) ==
    LET refs == SortedByName(repository.branches \cup {HeadRef})
        line(ref) ==
            IF ref = HeadRef
            THEN <<" ", " ">> \o Origin \o HeadRef \o <<" ", "-", ">", " ">>
                 \o Origin \o repository.head
            ELSE <<" ", " ">> \o Origin \o ref
    IN  [i \in 1..Len(refs) |-> line(refs[i])] \o << <<>> >>

\* [0-9]+\.[0-9]+ on the whole of s
IsMajorMinor(s) ==
    \E k \in 2..(Len(s) - 1) :
        /\ s[k] = "."
        /\ \A i \in 1..Len(s) : i # k => IsDigit(s[i])

\* re.match(r".*/[0-9]+\.[0-9]+$", branch)
matches_numeric_branch(line) ==
    \E i \in 1..Len(line) :
        line[i] = "/" /\ IsMajorMinor(SubSeq(line, i + 1, Len(line)))

\* lines 241-244: the last component of every matching line, in the order
\* of the listing
RECURSIVE numeric_branches(_)
numeric_branches(lines) ==
    IF Len(lines) = 0 THEN <<>>
    ELSE LET parts == Split(lines[1], "/")
         IN  (IF matches_numeric_branch(lines[1])
              THEN <<parts[Len(parts)]>>
              ELSE <<>>) \o numeric_branches(Tail(lines))

(***************************************************************************)
(* main: the command line and the two loops                                *)
(***************************************************************************)
\* the lists of languages given with --languages
LanguageChoices == {<<En, Fr>>}

\* the values given with --branch (the empty string when it is not given)
BranchChoices == {<<>>, Master}

\* --jobs: one job, or the default of four
JobChoices == {1, 4}

\* lines 539-546
branches_to_do ==
    IF args.branch # <<>>
    THEN SelectSeq(BRANCHES,
                   LAMBDA branch : \/ branch.version = args.branch
                                   \/ branch.git_branch = args.branch)
    ELSE BRANCHES

\* the units of the run: positions in branches_to_do and args.languages
Units == (1..Len(branches_to_do)) \X (1..Len(args.languages))

unit == <<branch_i, language_i>>

version == branches_to_do[branch_i].version

git_branch == branches_to_do[branch_i].git_branch

language == args.languages[language_i]

(***************************************************************************)
(* Values of the variables of a unit before the unit has set them          *)
(***************************************************************************)
\* a directory the unit in progress has not looked at yet
Unread == [kind |-> "unread", branch |-> <<>>, fresh |-> FALSE]

NoRemote == [branches |-> {}, head |-> <<>>]

NoSync ==
    [directory |-> "", branch |-> <<>>, pre |-> Unread, post |-> Unread,
     cmds |-> <<>>, exc |-> ""]

\* Doc/build/html and Doc/dist of the checkout
NoBuild == [read |-> TRUE, exists |-> FALSE, html |-> <<>>, dist |-> <<>>]

\* Doc/build and Doc/dist of a checkout that was kept and that the unit
\* has not read yet
UnreadBuild == [NoBuild EXCEPT !.read = FALSE]

NoTarget == [exists |-> FALSE, before |-> <<>>, files |-> <<>>]

NoChanged == [computed |-> FALSE, paths |-> {}]

\* chgrp and chmod of the directory of the language and of the target:
\* "" when not run, else "ok" or "failed"
NoPrepare ==
    [chgrp_language_dir |-> "", chmod_language_dir |-> "",
     chmod_target |-> "", chgrp_target |-> ""]

\* whether find was run and what it printed, how many purge requests were
\* sent, whether curl exited with zero, and the list of paths of the request
NoPurge ==
    [scanned |-> FALSE, scan_ok |-> FALSE, prefixes |-> {}, issued |-> FALSE,
     requests |-> 0, ok |-> FALSE, paths |-> <<>>]

\* sync, remote, branches and translation show the call that the step just
\* taken made; a step that makes no such call leaves them empty
NoTranslationCall ==
    /\ remote' = NoRemote
    /\ branches' = <<>>
    /\ translation' = <<>>


(***************************************************************************)
(* What a unit finds on disk and at the remotes                            *)
(***************************************************************************)
\* the branches a translation repository may have, and the one HEAD names
RemoteBranchNames == {<<"3", ".", "9">>, <<"3", ".", "1", "0">>, Master}

Remotes ==
    {repository \in [branches : SUBSET RemoteBranchNames, head : RemoteBranchNames] :
        repository.head \in repository.branches}

\* a directory as an earlier run may have left it: missing, present
\* without .git, or a working copy of an older revision
DirPriors(branch) == {Absent, Plain, Repo(branch, FALSE)}

\* the trees make writes to Doc/build/html and to Doc/dist
BuildTrees == [{<<"index">>} -> 1..NumContents]

DistTrees == {<<>>, [p \in {<<"pdf">>} |-> 1]}

\* Doc/build of a checkout as an earlier run may have left it: nothing in
\* a directory that is missing
BuildPriors(directory) ==
    {NoBuild} \cup
    (IF directory.kind = "absent" THEN {}
     ELSE {[read |-> TRUE, exists |-> TRUE, html |-> html, dist |-> <<>>] :
              html \in BuildTrees})

\* the published tree as an earlier run may have left it
TargetPriors == {<<>>} \cup BuildTrees

SyncRecord(directory, branch, pre, call) ==
    [directory |-> directory, branch |-> branch, pre |-> pre,
     post |-> call.dir, cmds |-> call.cmds, exc |-> call.exc]


(***************************************************************************)
(* main, lines 552-587: one unit after the other, errors caught            *)
(***************************************************************************)
\* the calls of single functions that are checked on their own take no part
\* in the run
NoCalls == UNCHANGED <<matchVars, diffVars, pubVars, tagVars>>

\* the next iteration of the inner loop, or of the outer one
NextUnit ==
    /\ pc' = "build_one"
    /\ IF language_i < Len(args.languages)
       THEN language_i' = language_i + 1 /\ UNCHANGED branch_i
       ELSE language_i' = 1 /\ branch_i' = branch_i + 1

\* no unit is in progress: none of its directories is held
NoUnit ==
    /\ locale_clone_dir' = Unread
    /\ checkout' = Unread
    /\ build' = NoBuild
    /\ target' = NoTarget

\* A mutation of Raise: the exception is not caught and ends the run.
Raise_mutant(exc) ==
    /\ error' = exc
    /\ status' = [status EXCEPT ![unit] = "FAILED"]
    /\ pc' = "exit"
    /\ branch_i' = Len(branches_to_do) + 1
    /\ language_i' = 1
    /\ NoUnit

\* A mutation of Raise: a unit that raised is attempted once more before
\* the loop goes on.
Raise_retry_mutant(exc) ==
    /\ error' = exc
    /\ status' = [status EXCEPT ![unit] = "FAILED"]
    /\ IF attempts[unit] < 2
       THEN pc' = "build_one" /\ UNCHANGED <<branch_i, language_i>>
       ELSE NextUnit
    /\ NoUnit

\* lines 579-587: an exception of build_one or copy_build_to_webroot is
\* caught and logged, and the loop goes on
Raise(exc) ==
    /\ error' = exc
    /\ status' = [status EXCEPT ![unit] = "FAILED"]
    /\ NextUnit
    /\ NoUnit

\* copy_build_to_webroot returned: the try block is left normally
Return ==
    /\ status' = [status EXCEPT ![unit] = "DONE"]
    /\ NextUnit
    /\ NoUnit
    /\ UNCHANGED error

\* A mutation of Goto: with more than one job the unit is left to run on
\* its own and the loop goes on to the next unit.
Goto_mutant(place) ==
    /\ IF args.jobs > 1 THEN NextUnit
       ELSE pc' = place /\ UNCHANGED <<branch_i, language_i>>
    /\ UNCHANGED <<status, error>>

\* the step continues inside the unit at the given place
Goto(place) ==
    /\ pc' = place
    /\ UNCHANGED <<branch_i, language_i, status, error>>

\* A mutation of BuildOne: the translation is not synchronised, every
\* unit starts with the source sync.
BuildOne_mutant ==
    /\ pc = "build_one"
    /\ branch_i <= Len(branches_to_do)
    /\ attempts' = [attempts EXCEPT ![unit] = @ + 1]
    /\ status' = [status EXCEPT ![unit] = "RUNNING"]
    /\ error' = ""
    /\ pc' = "git_clone"
    /\ sync' = NoSync
    /\ NoTranslationCall
    /\ make' = ""
    /\ changed' = NoChanged
    /\ purge' = NoPurge
    /\ prepare' = NoPrepare
    /\ UNCHANGED <<args, branch_i, language_i, locale_clone_dir, checkout,
                   build, target>>
    /\ NoCalls

\* lines 558-569 and 259-269: build_one is entered for the next unit
BuildOne ==
    /\ pc = "build_one"
    /\ branch_i <= Len(branches_to_do)
    /\ attempts' = [attempts EXCEPT ![unit] = @ + 1]
    /\ status' = [status EXCEPT ![unit] = "RUNNING"]
    /\ error' = ""
    /\ pc' = IF language # En THEN "translation_branch" ELSE "git_clone"
    /\ sync' = NoSync
    /\ NoTranslationCall
    /\ make' = ""
    /\ changed' = NoChanged
    /\ purge' = NoPurge
    /\ prepare' = NoPrepare
    /\ UNCHANGED <<args, branch_i, language_i, locale_clone_dir, checkout,
                   build, target>>
    /\ NoCalls

\* the loops are exhausted: main returns
MainReturn ==
    /\ pc = "build_one"
    /\ branch_i > Len(branches_to_do)
    /\ pc' = "exit"
    \* no call is made by this step
    /\ sync' = NoSync
    /\ NoTranslationCall
    /\ make' = ""
    /\ changed' = NoChanged
    /\ purge' = NoPurge
    /\ prepare' = NoPrepare
    /\ UNCHANGED <<args, branch_i, language_i, status, attempts, error,
                   locale_clone_dir, checkout, build, target>>
    /\ NoCalls

(***************************************************************************)
(* build_one, lines 269-313                                                *)
(***************************************************************************)
\* One call of git_clone for every outcome of the commands it runs: the
\* outcomes of commands the call does not run make no difference.
git_clone_calls(directory, branch, head) ==
    {git_clone(directory, branch, head, out) : out \in Outcomes}

\* lines 239-245, called at line 279: translation_branch
TranslationBranch ==
    /\ pc = "translation_branch"
    /\ \E repository \in Remotes :
       LET kept == numeric_branches(git_branch_r(repository))
           nearest == locate_nearest_version(kept, version)
       IN
       \E listed \in BOOLEAN, prior \in DirPriors(repository.head) :
       \E call \in git_clone_calls(prior, <<>>, repository.head) :
          LET \* git branch -r fails in a directory that is no working copy
              listing == shell_out("branch", listed /\ call.dir.kind = "repo")
              returns == call.exc = "" /\ listing.ok /\ nearest.exc = ""
          IN  /\ call.dir.kind # "repo" => listed
              /\ remote' = repository
              /\ sync' = SyncRecord("locale_clone_dir", <<>>, prior, call)
              /\ branches' = IF call.exc = "" /\ listing.ok THEN kept ELSE <<>>
              /\ translation' = IF returns THEN nearest.value ELSE <<>>
              /\ IF call.exc # "" THEN Raise(call.exc)
                 ELSE IF listing.raised THEN Raise("CalledProcessError")
                 \* remote_branches is None: None.split
                 ELSE IF ~listing.ok THEN Raise("AttributeError")
                 ELSE IF nearest.exc # "" THEN Raise(nearest.exc)
                 ELSE /\ locale_clone_dir' = call.dir
                      /\ Goto("translation_clone")
                      /\ UNCHANGED <<checkout, build, target>>
    /\ UNCHANGED <<args, attempts, make, changed, purge, prepare>>
    /\ NoCalls

\* lines 276-280: git_clone of the translation at the returned branch
TranslationClone ==
    /\ pc = "translation_clone"
    /\ \E call \in git_clone_calls(locale_clone_dir, translation, remote.head) :
              /\ sync' = SyncRecord("locale_clone_dir", translation,
                                    locale_clone_dir, call)
              /\ IF call.exc # "" THEN Raise(call.exc)
                 ELSE /\ locale_clone_dir' = call.dir
                      /\ Goto("git_clone")
                      /\ UNCHANGED <<checkout, build, target>>
    \* the listing and the remote were those of translation_branch
    /\ remote' = NoRemote
    /\ branches' = <<>>
    /\ UNCHANGED <<args, attempts, translation, make, changed, purge,
                   prepare>>
    /\ NoCalls

\* line 288: git_clone of cpython at the version's branch
SourceClone ==
    /\ pc = "git_clone"
    /\ \E prior \in DirPriors(git_branch) :
       \E call \in git_clone_calls(prior, git_branch, Master) :
              /\ sync' = SyncRecord("checkout", git_branch, prior, call)
              /\ IF call.exc # "" THEN Raise(call.exc)
                 ELSE /\ checkout' = call.dir
                      \* Doc/build lies inside the checkout and goes with it
                      /\ build' = IF call.removed THEN NoBuild ELSE UnreadBuild
                      \* the translation is read by sphinx-build alone
                      /\ locale_clone_dir' = Unread
                      /\ Goto("make")
                      /\ UNCHANGED target
    /\ NoTranslationCall
    /\ UNCHANGED <<args, attempts, make, changed, purge, prepare>>
    /\ NoCalls

\* lines 289-313: make in checkout/Doc, then chgrp of the log directory;
\* build_one returns and its working copies are not looked at again
Make ==
    /\ pc = "make"
    /\ \E exit_ok \in BOOLEAN, html \in BuildTrees, dist \in DistTrees :
       \* what an earlier run left in a checkout that was kept
       \E built \in (IF build = UnreadBuild THEN BuildPriors(checkout)
                     ELSE {build}) :
          \* without a working copy there is no Doc/Makefile
          LET run == shell_out("make", exit_ok /\ checkout.kind = "repo")
              chgrp == shell_out("chgrp", TRUE)
          IN  \* what make writes is drawn only when it writes
              /\ checkout.kind # "repo" => exit_ok
              /\ (~run.ok => \A p \in DOMAIN html : html[p] = 1)
              /\ (~run.ok \/ args.quick) => dist = <<>>
              /\ make' = IF run.ok THEN "ok" ELSE "failed"
              /\ IF run.raised \/ chgrp.raised
                 THEN Raise("CalledProcessError")
                 ELSE /\ build' =
                            IF run.ok
                            THEN [read |-> TRUE, exists |-> TRUE, html |-> html,
                                  dist |-> IF args.quick THEN built.dist ELSE dist]
                            ELSE built
                      /\ checkout' = Unread
                      /\ Goto("copy_build_to_webroot")
                      /\ UNCHANGED locale_clone_dir
                      /\ UNCHANGED target
    /\ sync' = NoSync
    /\ UNCHANGED <<args, attempts, remote, branches, translation, changed,
                   purge, prepare>>
    /\ NoCalls

(***************************************************************************)
(* copy_build_to_webroot, lines 316-408                                    *)
(***************************************************************************)
\* rsync -a html/ target: every file of html is written over target
rsync_quick(html, files) ==
    [p \in DOMAIN html \cup DOMAIN files |->
        IF p \in DOMAIN html THEN html[p] ELSE files[p]]

\* rsync -a --delete-delay --filter "P archives/": as above, and what is in
\* target and not in html is deleted, except below archives/
rsync_mirror(html, files) ==
    [p \in DOMAIN html \cup {q \in DOMAIN files : q[1] = "archives"} |->
        IF p \in DOMAIN html THEN html[p] ELSE files[p]]

\* cp -a Doc/dist/* target/archives
cp_dist(dist, files) ==
    [p \in DOMAIN files \cup {<<"archives">> \o name : name \in DOMAIN dist} |->
        IF \E name \in DOMAIN dist : p = <<"archives">> \o name
        THEN dist[SubSeq(p, 2, Len(p))]
        ELSE files[p]]

\* the prefixes find -L www_root -samefile target prints: the directory of
\* the target itself and, when a link names it, the link
AliasChoices == {{<<"version">>}, {<<"version">>, <<"link">>}}

\* os.chmod: PermissionError is raised when the mode may not be changed
os_chmod(ok) == [ok |-> ok, raised |-> ~ok]

Outcome(call) == IF call.ok THEN "ok" ELSE "failed"

\* lines 323-343: the directory of the language (of a translation only) and
\* the target are made, their group and mode changed.  chgrp goes through
\* shell_out; os.chmod of the target is inside try/except PermissionError,
\* os.chmod of the directory of the language is not.
prepare_target(lang, chgrp_dir_ok, chmod_dir_ok, chmod_ok, chgrp_ok) ==
    LET chgrp_dir == shell_out("chgrp", chgrp_dir_ok)
        chmod_dir == os_chmod(chmod_dir_ok)
        chmod == os_chmod(chmod_ok)
        chgrp == shell_out("chgrp", chgrp_ok)
        dir_exc == IF chgrp_dir.raised THEN "CalledProcessError"
                   ELSE IF chmod_dir.raised THEN "PermissionError"
                   ELSE ""
    IN  IF lang # En /\ dir_exc # ""
        THEN [exc |-> dir_exc,
              done |-> [NoPrepare EXCEPT
                          !.chgrp_language_dir = Outcome(chgrp_dir),
                          !.chmod_language_dir =
                              IF chgrp_dir.raised THEN ""
                              ELSE Outcome(chmod_dir)]]
        ELSE [exc |-> IF chgrp.raised THEN "CalledProcessError" ELSE "",
              done |-> [chgrp_language_dir |->
                            IF lang # En THEN Outcome(chgrp_dir) ELSE "",
                        chmod_language_dir |->
                            IF lang # En THEN Outcome(chmod_dir) ELSE "",
                        chmod_target |-> Outcome(chmod),
                        chgrp_target |-> Outcome(chgrp)]]

\* lines 321-343: the target directory is made, its group and mode set as
\* far as permitted
PublishPrepare ==
    /\ pc = "copy_build_to_webroot"
    /\ \E chgrp_dir_ok \in BOOLEAN, chmod_dir_ok \in BOOLEAN,
          chmod_ok \in BOOLEAN, chgrp_ok \in BOOLEAN :
          LET prepared == prepare_target(language, chgrp_dir_ok, chmod_dir_ok,
                                         chmod_ok, chgrp_ok)
          IN  \* only the outcomes of the calls made are drawn
              /\ prepared.done.chgrp_language_dir = "" => chgrp_dir_ok
              /\ prepared.done.chmod_language_dir = "" => chmod_dir_ok
              /\ prepared.done.chmod_target = "" => chmod_ok
              /\ prepared.done.chgrp_target = "" => chgrp_ok
              /\ prepare' = prepared.done
              /\ IF prepared.exc # ""
                 THEN Raise(prepared.exc)
                 ELSE /\ Goto("changed_files")
                      /\ UNCHANGED <<locale_clone_dir, checkout, build, target>>
    /\ sync' = NoSync
    /\ UNCHANGED <<args, attempts, remote, branches, translation, make,
                   changed, purge>>
    /\ NoCalls

\* line 345: changed_files compares the build with the target
PublishDiff ==
    /\ pc = "changed_files"
    /\ \E prior \in TargetPriors :
          IF ~build.exists
          \* os.listdir of Doc/build/html
          THEN /\ prior = <<>>
               /\ UNCHANGED changed
               /\ Raise("FileNotFoundError")
          ELSE /\ target' = [exists |-> TRUE, before |-> prior, files |-> prior]
               /\ changed' = [computed |-> TRUE,
                              paths |-> changed_files(build.html, prior)]
               /\ Goto("rsync")
               /\ UNCHANGED <<locale_clone_dir, checkout, build>>
    /\ sync' = NoSync
    \* the changes of group and mode were those of the step before
    /\ prepare' = NoPrepare
    /\ UNCHANGED <<args, attempts, remote, branches, translation, make, purge>>
    /\ NoCalls

\* lines 346-393 as a function of the build, the files of the target and
\* the exit status of rsync, mkdir and cp: the exception raised if any, the
\* files of the target afterwards, the paths appended to changed, and
\* whether every command run exited with zero
publish_copy(tree, files, quick, rsync_ok, mkdir_ok, cp_ok) ==
    LET rsync == shell_out("rsync", rsync_ok)
        mkdir == shell_out("mkdir", mkdir_ok)
        \* the pattern Doc/dist/* names no file when dist is empty
        cp == shell_out("cp", cp_ok /\ mkdir_ok /\ DOMAIN tree.dist # {})
        copied ==
            IF ~rsync.ok THEN files
            ELSE IF quick THEN rsync_quick(tree.html, files)
            ELSE rsync_mirror(tree.html, files)
        archived == IF cp.ok THEN cp_dist(tree.dist, copied) ELSE copied
        listed == NamesAt(archived, <<"archives">>)
    IN  [exc |-> IF rsync.raised \/ (~quick /\ (mkdir.raised \/ cp.raised))
                 THEN "CalledProcessError"
                 \* os.listdir of target/archives
                 ELSE IF ~quick /\ ~mkdir.ok /\ listed = {}
                 THEN "FileNotFoundError"
                 ELSE "",
         files |-> IF quick THEN copied ELSE archived,
         appended |-> IF quick THEN {}
                      ELSE {<<"archives", "">>}
                           \cup {<<"archives", fn>> : fn \in listed},
         ok |-> rsync.ok /\ (quick \/ (mkdir.ok /\ cp.ok))]

\* lines 346-393: the copy of the html tree and, unless quick, of the
\* archives
PublishCopy ==
    /\ pc = "rsync"
    /\ \E rsync_ok \in BOOLEAN, mkdir_ok \in BOOLEAN, cp_ok \in BOOLEAN :
          LET copy == publish_copy(build, target.files, args.quick,
                                   rsync_ok, mkdir_ok, cp_ok)
          IN  \* mkdir and cp are run only when not quick
              /\ args.quick => mkdir_ok /\ cp_ok
              /\ IF copy.exc # ""
                 THEN UNCHANGED changed /\ Raise(copy.exc)
                 ELSE /\ target' = [target EXCEPT !.files = copy.files]
                      /\ changed' =
                            [changed EXCEPT !.paths = @ \cup copy.appended]
                      /\ Goto("purge")
                      /\ UNCHANGED <<locale_clone_dir, checkout, build>>
    /\ sync' = NoSync
    /\ UNCHANGED <<args, attempts, remote, branches, translation, make, purge,
                   prepare>>
    /\ NoCalls

\* line 395: if changed and not skip_cache_invalidation
purge_wanted(paths, skip_cache_invalidation) ==
    paths # {} /\ ~skip_cache_invalidation

\* the elements of a finite set as a list, in some order
RECURSIVE SetToSeq(_)
SetToSeq(S) ==
    IF S = {} THEN <<>>
    ELSE LET x == CHOOSE y \in S : TRUE
         IN  <<x>> \o SetToSeq(S \ {x})

\* A mutation of to_purge: the bare prefixes are left out of the list.
to_purge_mutant(prefixes, paths) ==
    LET ps == SetToSeq(prefixes)
        cs == SetToSeq(paths)
        extended[i \in 0..Len(ps)] ==
            IF i = 0 THEN <<>>
            ELSE extended[i - 1] \o [j \in 1..Len(cs) |-> ps[i] \o cs[j]]
    IN  extended[Len(ps)]

\* lines 399-402: to_purge = prefixes[:], extended for every prefix by
\* prefix + p for p in changed
to_purge(prefixes, paths) ==
    LET ps == SetToSeq(prefixes)
        cs == SetToSeq(paths)
        extended[i \in 0..Len(ps)] ==
            IF i = 0 THEN ps
            ELSE extended[i - 1] \o [j \in 1..Len(cs) |-> ps[i] \o cs[j]]
    IN  extended[Len(ps)]

\* lines 395-408: the purge request for the changed paths
PublishPurge ==
    /\ pc = "purge"
    /\ IF purge_wanted(changed.paths, args.skip_cache_invalidation)
       THEN \E find_ok \in BOOLEAN, curl_ok \in BOOLEAN, prefixes \in AliasChoices :
               LET find == shell_out("find", find_ok)
                   curl == shell_out("curl", curl_ok)
               IN  IF find.raised
                   THEN UNCHANGED purge /\ Raise("CalledProcessError")
                   ELSE IF ~find.ok
                   \* prefixes is None: None.replace
                   THEN /\ curl_ok /\ prefixes = {<<"version">>}
                        /\ purge' = [NoPurge EXCEPT !.scanned = TRUE]
                        /\ Raise("AttributeError")
                   ELSE /\ purge' =
                              [scanned |-> TRUE, scan_ok |-> TRUE,
                               prefixes |-> prefixes, issued |-> TRUE,
                               requests |-> 1, ok |-> curl.ok,
                               paths |-> to_purge(prefixes, changed.paths)]
                        /\ IF curl.raised
                           THEN Raise("CalledProcessError")
                           ELSE Return
       ELSE UNCHANGED purge /\ Return
    /\ sync' = NoSync
    /\ UNCHANGED <<args, attempts, remote, branches, translation, make, changed,
                   prepare>>
    /\ NoCalls


(***************************************************************************)
(* The run of main                                                         *)
(***************************************************************************)
IdleMatch ==
    /\ matchAvailable = <<>>
    /\ matchTarget = <<>>
    /\ matchFound = [exc |-> "pending", value |-> <<>>]

IdleDiff ==
    /\ diffLeft = <<>>
    /\ diffRight = <<>>
    /\ diffChanged = [done |-> FALSE, paths |-> {}]

IdlePub ==
    /\ pubArgs = [quick |-> FALSE, skip_cache_invalidation |-> FALSE]
    /\ pubBuild = NoBuild
    /\ pubTarget = <<>>
    /\ pubCalls = <<>>

IdleTag ==
    /\ tagIn = <<>>
    /\ tagOut = <<>>

IdleMain ==
    /\ args = [branch |-> <<>>, languages |-> <<>>, quick |-> FALSE,
               skip_cache_invalidation |-> FALSE, jobs |-> 1]
    /\ branch_i = 1
    /\ language_i = 1
    /\ pc = "exit"
    /\ status = <<>>
    /\ attempts = <<>>
    /\ error = ""
    /\ remote = NoRemote
    /\ locale_clone_dir = Unread
    /\ checkout = Unread
    /\ build = NoBuild
    /\ target = NoTarget
    /\ sync = NoSync
    /\ branches = <<>>
    /\ translation = <<>>
    /\ make = ""
    /\ changed = NoChanged
    /\ purge = NoPurge
    /\ prepare = NoPrepare

Init ==
    /\ IdleMatch
    /\ IdleDiff
    /\ IdlePub
    /\ IdleTag
    /\ args \in [branch : BranchChoices, languages : LanguageChoices,
                 quick : BOOLEAN, skip_cache_invalidation : BOOLEAN,
                 jobs : JobChoices]
    /\ branch_i = 1
    /\ language_i = 1
    /\ pc = "build_one"
    /\ status = [u \in Units |-> "PENDING"]
    /\ attempts = [u \in Units |-> 0]
    /\ error = ""
    /\ remote = NoRemote
    /\ locale_clone_dir = Unread
    /\ checkout = Unread
    /\ build = NoBuild
    /\ target = NoTarget
    /\ sync = NoSync
    /\ branches = <<>>
    /\ translation = <<>>
    /\ make = ""
    /\ changed = NoChanged
    /\ purge = NoPurge
    /\ prepare = NoPrepare

Next ==
    \/ BuildOne
    \/ TranslationBranch
    \/ TranslationClone
    \/ SourceClone
    \/ Make
    \/ PublishPrepare
    \/ PublishDiff
    \/ PublishCopy
    \/ PublishPurge
    \/ MainReturn

Spec == Init /\ [][Next]_vars

Places ==
    {"build_one", "translation_branch", "translation_clone", "git_clone",
     "make", "copy_build_to_webroot", "changed_files", "rsync", "purge",
     "exit"}

\* the thread of main goes on: it leaves the place it is at, as long as
\* that is not the exit
Advance == pc # "exit" /\ pc' \in Places \ {pc}

\* main is one thread and every call it makes is synchronous (shell_out
\* waits in subprocess.check_output, lines 114-121): a command that has
\* been started runs to its exit and main goes on to its next statement.
\* Every step of Next changes pc and Next has a step at every place but
\* the exit (NoStopBeforeExit), so this is weak fairness of Next.
SpecFair == Spec /\ WF_pc(Advance)

\* main has a step to take at every place but its exit
NoStopBeforeExit == pc # "exit" => ENABLED Next

\* every step of main changes the place main is at
EveryStepAdvances == [][pc' # pc]_vars

(***************************************************************************)
(* Properties of the run                                                   *)
(***************************************************************************)
\* u comes before w in the order of the two loops
Before(u, w) == u[1] < w[1] \/ (u[1] = w[1] /\ u[2] < w[2])

\* the unit whose try block was left by the step just taken
EndedUnit ==
    IF language_i > 1
    THEN <<branch_i, language_i - 1>>
    ELSE <<branch_i - 1, Len(args.languages)>>

CommandNames(cmds) == [i \in 1..Len(cmds) |-> cmds[i].cmd]

AllSucceeded(cmds) == \A i \in 1..Len(cmds) : cmds[i].ok

\* a command of the update (fetch, checkout, reset before any clone) failed
UpdateFailed(cmds) ==
    \E i \in 1..Len(cmds) :
        /\ ~cmds[i].ok
        /\ \A j \in 1..i : cmds[j].cmd # "clone"

\* a command of the fresh clone (clone, checkout after it) failed
FallbackFailed(cmds) ==
    \E i \in 1..Len(cmds) :
        /\ ~cmds[i].ok
        /\ \E j \in 1..i : cmds[j].cmd = "clone"

\* the commands of a fresh clone, optionally with the checkout of a branch
FreshCloneCommands(pre, branch) ==
    (IF pre.kind # "absent" THEN <<"rmtree">> ELSE <<>>)
    \o <<"makedirs", "clone">>
    \o (IF branch # <<>> THEN <<"checkout">> ELSE <<>>)

\* C1: when a unit has failed, every unit after it in the order of the
\* loops is still attempted: main does not return before the loops are
\* exhausted, whatever a unit raised.
C1_FailureIsolation ==
    pc = "exit" =>
        \A u \in Units : \A w \in Units :
            status[u] = "FAILED" /\ Before(u, w) =>
                attempts[w] >= 1 /\ status[w] \in {"DONE", "FAILED"}

\* C1 witness: the run is over, its first unit failed, and a later unit of
\* the same version and one of the next version were published.
C1_Witness ==
    /\ pc = "exit"
    /\ Len(branches_to_do) >= 2
    /\ status[<<1, 1>>] = "FAILED"
    /\ status[<<1, 2>>] = "DONE"
    /\ status[<<2, 1>>] = "DONE"

\* C2: when make has exited nonzero, copy_build_to_webroot is not started
\* for the unit: its target is not touched, no change set is computed and
\* no purge request is issued.
C2_PublishOnlyAfterBuild ==
    make = "failed" =>
        /\ pc \notin {"rsync", "purge"}
        /\ target = NoTarget
        /\ ~changed.computed
        /\ ~purge.issued

\* C3: when git_clone is called on a working copy and a command of the
\* update fails, the directory is removed, recreated and freshly cloned,
\* and the branch, when given, is checked out after the clone.
C3_FallbackOnFailedUpdate ==
    sync.pre.kind = "repo" /\ UpdateFailed(sync.cmds) =>
        \E n \in 1..Len(sync.cmds) :
            SubSeq(CommandNames(sync.cmds), n + 1, Len(sync.cmds))
                = FreshCloneCommands(sync.pre, sync.branch)

\* C4: git_clone raises to its caller exactly when a command of the fresh
\* clone fails.
C4_RaisesIffFallbackFails ==
    sync.directory # "" => (sync.exc # "" <=> FallbackFailed(sync.cmds))

\* C5: when git_clone returns normally the directory is a working copy on
\* the requested branch, when one was given, with the content of the remote
\* tip.
C5_SyncPostcondition ==
    sync.directory # "" /\ sync.exc = "" =>
        /\ sync.post.kind = "repo"
        /\ sync.branch # <<>> => sync.post.branch = sync.branch
        /\ sync.post.fresh

\* C6: on a directory without .git git_clone runs no fetch, checkout or
\* reset on the old directory: it removes the directory when it is there,
\* recreates it, clones, and checks the branch out when one is given; when
\* all of these succeed the directory is a working copy at the remote tip
\* of the requested branch.
C6_RecoveryFromNonRepository ==
    sync.directory # "" /\ sync.pre.kind # "repo" =>
        /\ CommandNames(sync.cmds) = FreshCloneCommands(sync.pre, sync.branch)
        /\ AllSucceeded(sync.cmds) =>
              /\ sync.exc = ""
              /\ sync.post.kind = "repo"
              /\ sync.post.fresh
              /\ sync.branch # <<>> => sync.post.branch = sync.branch

\* C6 witness: a directory whose .git is gone was removed and cloned again
\* and is on the requested branch.
C6_Witness ==
    /\ sync.directory = "checkout"
    /\ sync.pre = Plain
    /\ sync.branch = Master
    /\ CommandNames(sync.cmds) = <<"rmtree", "makedirs", "clone", "checkout">>
    /\ AllSucceeded(sync.cmds)
    /\ sync.post = Repo(Master, TRUE)
    /\ pc = "make"

\* the numeric branches of the remote of the translation
NumericBranches(repository) == {b \in repository.branches : IsMajorMinor(b)}

\* b is the nearest of the names to the wanted version: the smallest one
\* that is >= wanted in (major, minor) order, or the largest when none is
IsNearest(b, names, wanted) ==
    LET atleast == {n \in names :
                       TupleLeq(version_to_tuple(wanted), version_to_tuple(n))}
    IN  /\ b \in names
        /\ IF atleast # {}
           THEN /\ b \in atleast
                /\ \A n \in atleast :
                       TupleLeq(version_to_tuple(b), version_to_tuple(n))
           ELSE \A n \in names :
                    TupleLeq(version_to_tuple(n), version_to_tuple(b))

\* C8: the branch translation_branch returns is the nearest numeric branch
\* of the remote, and after the second git_clone the working copy of the
\* translation is on that branch.
C8_TranslationBranchResolution ==
    /\ pc = "translation_clone" =>
          IsNearest(translation, NumericBranches(remote), version)
    /\ (sync.directory = "locale_clone_dir" /\ sync.branch # <<>>
        /\ pc = "git_clone") =>
          sync.post = Repo(sync.branch, TRUE)

\* translation_branch has just listed a remote without a numeric branch
NoNumericBranchListed ==
    /\ remote # NoRemote
    /\ NumericBranches(remote) = {}
    /\ sync.post.kind = "repo"
    /\ error # "AttributeError"

\* C9: when the remote of the translation has no numeric branch, the unit
\* ends in the error "no translation available"; no branch of the
\* translation is checked out and neither make nor the publication runs.
C9_NoTranslationAvailable ==
    NoNumericBranchListed =>
        /\ pc \in {"build_one", "exit"}
        /\ status[EndedUnit] = "FAILED"
        /\ error = "NoTranslationAvailable"
        /\ translation = <<>>
        /\ make = ""
        /\ ~changed.computed
        /\ ~purge.issued

\* The unit that lists such a remote fails with the IndexError of
\* locate_nearest_version and runs nothing further.
NoNumericBranchFails ==
    NoNumericBranchListed =>
        /\ pc \in {"build_one", "exit"}
        /\ status[EndedUnit] = "FAILED"
        /\ error = "IndexError"
        /\ translation = <<>>
        /\ make = ""
        /\ ~changed.computed
        /\ ~purge.issued


\* the paths whose served content is not the same in the two trees: present
\* in one only, or present in both with another content
ServedDiffers(before, after) ==
    {p \in DOMAIN before \cup DOMAIN after :
        \/ p \notin DOMAIN before
        \/ p \notin DOMAIN after
        \/ before[p] # after[p]}

\* C11: when the copy of copy_build_to_webroot is over, every path whose
\* content under the target is not what it was before the call (added,
\* modified or removed, archives included) is in the list of changed paths
\* the purge is built from.
C11_ChangeSetSufficient ==
    pc = "purge" =>
        ServedDiffers(target.before, target.files) \subseteq changed.paths

\* copy_build_to_webroot has come to line 395 and gone through its end
AfterPurgeStage ==
    /\ pc \in {"build_one", "exit"}
    /\ changed.computed
    /\ error # "FileNotFoundError"

\* C13: a purge request is issued exactly when the list of changed paths
\* is not empty and cache invalidation is not disabled; with an empty list
\* or with skip_cache_invalidation neither find nor the purge request is
\* run.
C13_PurgeIffChanged ==
    AfterPurgeStage =>
        /\ purge.issued <=>
              (changed.paths # {} /\ ~args.skip_cache_invalidation)
        /\ (changed.paths = {} \/ args.skip_cache_invalidation) =>
              ~purge.scanned

\* With an empty list of changed paths or with skip_cache_invalidation
\* neither find nor the purge request is run; otherwise find is run, and
\* the purge request is issued exactly when find has printed the prefixes.
PurgeGatedByScan ==
    AfterPurgeStage =>
        /\ (changed.paths = {} \/ args.skip_cache_invalidation) =>
               ~purge.scanned /\ ~purge.issued /\ purge.requests = 0
        /\ (changed.paths # {} /\ ~args.skip_cache_invalidation) =>
               purge.scanned /\ (purge.issued <=> purge.scan_ok)

\* the elements of a list
Range(seq) == {seq[i] : i \in 1..Len(seq)}

\* C14: when the purge is run with the prefixes P that find printed and the
\* list C of changed paths, one request is issued; its paths are P and
\* prefix + path for every prefix of P and every path of C, each once:
\* |P| + |P| * |C| entries.
C14_PurgePathSet ==
    purge.issued =>
        /\ purge.requests = 1
        /\ Range(purge.paths) =
              purge.prefixes
              \cup {prefix \o p : prefix \in purge.prefixes, p \in changed.paths}
        /\ Len(purge.paths) =
              Cardinality(purge.prefixes)
              + Cardinality(purge.prefixes) * Cardinality(changed.paths)
        /\ Cardinality(Range(purge.paths)) = Len(purge.paths)

\* C14 witness: a purge for two prefixes and two changed paths lists six
\* paths.
C14_Witness ==
    /\ purge.issued
    /\ Cardinality(purge.prefixes) = 2
    /\ Cardinality(changed.paths) = 2
    /\ Len(purge.paths) = 6

\* find or the purge request of the unit that has just ended failed
PurgeStageFailed ==
    /\ pc \in {"build_one", "exit"}
    /\ purge.scanned
    /\ ~purge.scan_ok \/ (purge.issued /\ ~purge.ok)

\* C15: when find or the purge request fails, the unit still ends DONE and
\* not FAILED.
C15_PurgeFailureNotFatal ==
    PurgeStageFailed => status[EndedUnit] = "DONE"

\* a purge request that fails leaves the unit DONE; a find that fails makes
\* it FAILED by the AttributeError of None.replace
PurgeFailureOutcome ==
    PurgeStageFailed =>
        IF purge.scan_ok
        THEN status[EndedUnit] = "DONE"
        ELSE status[EndedUnit] = "FAILED" /\ error = "AttributeError"

\* a change of group or mode of the step just taken has failed
PrepareFailed ==
    \/ prepare.chgrp_language_dir = "failed"
    \/ prepare.chmod_language_dir = "failed"
    \/ prepare.chmod_target = "failed"
    \/ prepare.chgrp_target = "failed"

\* C16: when a change of group or of mode of the target directory or of the
\* directory of the language fails, copy_build_to_webroot goes on: the
\* unit is not ended and changed_files is run next.
C16_BestEffortPermissions ==
    PrepareFailed =>
        /\ pc = "changed_files"
        /\ status[unit] = "RUNNING"

\* Only os.chmod of the directory of the language ends the unit; the other
\* three failures let copy_build_to_webroot go on.
PrepareFailureOutcome ==
    PrepareFailed =>
        IF prepare.chmod_language_dir = "failed"
        THEN /\ pc = "build_one"
             /\ status[EndedUnit] = "FAILED"
             /\ error = "PermissionError"
             /\ ~changed.computed
        ELSE pc = "changed_files" /\ status[unit] = "RUNNING"

\* the units that are inside build_one or copy_build_to_webroot
Running == {u \in Units : status[u] = "RUNNING"}

\* C17: whatever --jobs says, at most one unit at a time is inside
\* build_one or copy_build_to_webroot, and it is the unit of the current
\* iteration of the loops: no two units are inside git_clone or make on a
\* checkout at the same time.
C17_ExclusiveAccess ==
    /\ Cardinality(Running) <= 1
    /\ pc \in {"build_one", "exit"} => Running = {}
    /\ pc \notin {"build_one", "exit"} => Running = {unit}

\* C17 witness: with four jobs a unit is about to run git_clone on its
\* checkout; the unit before it has ended and no other unit has begun.
C17_Witness ==
    /\ args.jobs = 4
    /\ pc = "git_clone"
    /\ unit = <<1, 2>>
    /\ status[<<1, 1>>] = "DONE"
    /\ Running = {<<1, 2>>}
    /\ \A u \in Units : Before(unit, u) => status[u] = "PENDING"

\* the stages of a unit in the order of lines 269-312 and 321-407
StageOrder ==
    <<"translation_branch", "translation_clone", "git_clone", "make",
      "copy_build_to_webroot", "changed_files", "rsync", "purge">>

Stages == {StageOrder[i] : i \in DOMAIN StageOrder}

StageIndex(place) == CHOOSE i \in DOMAIN StageOrder : StageOrder[i] = place

\* a step of the run seen from the unit it belongs to
StageStep ==
    \* between two units: the next unit starts with its first stage, the
    \* translation sync for a translation and the source sync otherwise,
    \* or the run is over
    /\ pc = "build_one" =>
          \/ pc' = "exit" /\ status' = status
          \/ /\ unit' = unit
             /\ status[unit] = "PENDING"
             /\ status' = [status EXCEPT ![unit] = "RUNNING"]
             /\ pc' = IF language # En THEN "translation_branch"
                      ELSE "git_clone"
    \* inside a unit: the stage has returned and the next stage of the
    \* same unit starts, or the unit ends; it ends DONE after the last
    \* stage alone, and FAILED otherwise
    /\ pc \in Stages =>
          \/ /\ StageIndex(pc) < Len(StageOrder)
             /\ pc' = StageOrder[StageIndex(pc) + 1]
             /\ unit' = unit
             /\ status' = status
             /\ status[unit] = "RUNNING"
          \/ /\ pc' = "build_one"
             /\ unit' # unit
             /\ status' = [status EXCEPT ![unit] = "FAILED"]
          \/ /\ pc = "purge"
             /\ pc' = "build_one"
             /\ unit' # unit
             /\ status' = [status EXCEPT ![unit] = "DONE"]
    \* the change set is computed before the copy is made
    /\ pc' = "rsync" => changed'.computed /\ target'.files = target'.before
    /\ pc' = "purge" => changed'.computed
    /\ pc = "exit" => pc' = "exit"

\* C19: the stages of a unit occur in the order translation sync (only
\* for a translation: sync without a branch and resolution of the branch,
\* then sync at the branch), source sync, build, publish (the change set
\* before the copy), invalidate; a stage starts only when the stage
\* before it has returned, and a unit that leaves out stages ends FAILED.
C19_StageOrdering == [][StageStep]_vars

\* a translation has gone through every stage and a purge was issued for
\* it, after the unit before it had failed
C19_Witness ==
    /\ pc = "build_one"
    /\ EndedUnit = <<1, 2>>
    /\ args.languages[2] # En
    /\ status[<<1, 1>>] = "FAILED"
    /\ status[<<1, 2>>] = "DONE"
    /\ purge.issued

\* the units are attempted in the order of the loops, the versions outside
\* and the languages inside, and none more than once
AttemptedInOrder ==
    \A u \in Units :
        /\ attempts[u] <= 1
        /\ attempts[u] = 0 <=> status[u] = "PENDING"
        /\ attempts[u] = 1 =>
              \A w \in Units :
                  Before(w, u) =>
                      attempts[w] = 1 /\ status[w] \in {"DONE", "FAILED"}

\* a unit that has ended stays as it ended
EndedStays ==
    \A u \in Units :
        status[u] \in {"DONE", "FAILED"} =>
            status'[u] = status[u] /\ attempts'[u] = attempts[u]

\* main has returned and every unit was attempted once and has ended
RunOver ==
    /\ pc = "exit"
    /\ \A u \in Units :
          attempts[u] = 1 /\ status[u] \in {"DONE", "FAILED"}

\* C20: whatever fails in the stages, the run comes to its end with main
\* returning normally; by then every unit of versions x languages has been
\* attempted exactly once, in the order of the versions and within a
\* version in the order of the languages, and has ended DONE or FAILED; a
\* unit that has failed is not attempted again.
C20_RunTermination ==
    /\ []AttemptedInOrder
    /\ [][EndedStays]_vars
    /\ <>[]RunOver

\* the run is over with failed units before and after a published one,
\* each attempted once
C20_Witness ==
    /\ pc = "exit"
    /\ Len(branches_to_do) >= 2
    /\ status[<<1, 1>>] = "FAILED"
    /\ status[<<1, 2>>] = "DONE"
    /\ status[<<2, 1>>] = "FAILED"
    /\ \A u \in Units : attempts[u] = 1

(***************************************************************************)
(* Calls of locate_nearest_version on its documented inputs: a non-empty   *)
(* list of major.minor names in ascending (major, minor) order.            *)
(***************************************************************************)
VersionNames ==
    {tuple_to_version(<<major, minor>>) : major \in 2..3, minor \in 8..MaxMinor}

IsSortedVersions(versions) ==
    \A i \in 1..(Len(versions) - 1) :
        TupleLeq(version_to_tuple(versions[i]), version_to_tuple(versions[i + 1]))

SortedVersionLists ==
    {versions \in UNION {[1..n -> VersionNames] : n \in 1..MaxAvail} :
        IsSortedVersions(versions)}

NotCalled == [exc |-> "pending", value |-> <<>>]

InitMatch ==
    /\ IdleDiff
    /\ IdlePub
    /\ IdleTag
    /\ IdleMain
    /\ matchAvailable \in SortedVersionLists
    /\ matchTarget \in VersionNames
    /\ matchFound = NotCalled

Locate ==
    /\ matchFound = NotCalled
    /\ matchFound' = locate_nearest_version(matchAvailable, matchTarget)
    /\ UNCHANGED <<matchAvailable, matchTarget, diffVars, pubVars, tagVars,
                   mainVars>>

NextMatch == Locate

SpecMatch == InitMatch /\ [][NextMatch]_vars

\* the positions of matchAvailable whose version is >= the target
AtLeastTarget ==
    {i \in 1..Len(matchAvailable) :
        TupleLeq(version_to_tuple(matchTarget), version_to_tuple(matchAvailable[i]))}

\* C7: on a non-empty ascending list, locate_nearest_version returns the
\* smallest available version >= the target in (major, minor) order, or the
\* largest available version when none is >= the target; so the result is a
\* member of the list and is the target itself when the target is a member.
C7_NearestVersion ==
    matchFound # NotCalled =>
        /\ matchFound.exc = ""
        /\ \E i \in 1..Len(matchAvailable) : matchFound.value = matchAvailable[i]
        /\ (\E i \in 1..Len(matchAvailable) : matchAvailable[i] = matchTarget)
                => matchFound.value = matchTarget
        /\ IF AtLeastTarget # {}
           THEN /\ TupleLeq(version_to_tuple(matchTarget),
                            version_to_tuple(matchFound.value))
                /\ \A i \in AtLeastTarget :
                       TupleLeq(version_to_tuple(matchFound.value),
                                version_to_tuple(matchAvailable[i]))
           ELSE \A i \in 1..Len(matchAvailable) :
                    TupleLeq(version_to_tuple(matchAvailable[i]),
                             version_to_tuple(matchFound.value))

\* C7 witness: a call returned for a target that is not available and lies
\* strictly between two available versions, one of them 3.10 after 3.9.
C7_Witness ==
    /\ matchFound # NotCalled
    /\ Len(matchAvailable) = MaxAvail
    /\ \A i \in 1..Len(matchAvailable) : matchAvailable[i] # matchTarget
    /\ AtLeastTarget # {}
    /\ AtLeastTarget # 1..Len(matchAvailable)
    /\ matchFound.value = <<"3", ".", "1", "0">>
    /\ matchTarget = <<"3", ".", "9">>

(***************************************************************************)
(* Calls of changed_files on pairs of existing directory trees             *)
(***************************************************************************)
TreePaths == {<<"index">>, <<"lib">>, <<"lib", "os">>, <<"lib", "re">>}

IsTreeDomain(paths) ==
    \A p \in paths, q \in paths : p # q => ~IsPrefix(p, q)

Trees ==
    UNION {[paths -> 1..NumContents] :
              paths \in {d \in SUBSET TreePaths : IsTreeDomain(d)}}

NotCompared == [done |-> FALSE, paths |-> {}]

InitDiff ==
    /\ IdleMatch
    /\ IdlePub
    /\ IdleTag
    /\ IdleMain
    /\ diffLeft \in Trees
    /\ diffRight \in Trees
    /\ diffChanged = NotCompared

Compare ==
    /\ diffChanged = NotCompared
    /\ diffChanged' = [done |-> TRUE, paths |-> changed_files(diffLeft, diffRight)]
    /\ UNCHANGED <<diffLeft, diffRight, matchVars, pubVars, tagVars, mainVars>>

NextDiff == Compare

SpecDiff == InitDiff /\ [][NextDiff]_vars

\* the regular files whose content differs between two trees, a file of
\* one tree only counting as differing
DifferingFiles(left, right) ==
    {p \in DOMAIN left \cup DOMAIN right :
        \/ p \notin DOMAIN left
        \/ p \notin DOMAIN right
        \/ left[p] # right[p]}

\* C10: changed_files returns exactly the regular files that differ in
\* content between the two trees, files present in one tree and absent from
\* the other included.
C10_ChangeSetExact ==
    diffChanged.done => diffChanged.paths = DifferingFiles(diffLeft, diffRight)

(***************************************************************************)
(* copy_build_to_webroot called again and again for one unit, the build    *)
(* tree staying what it is                                                 *)
(***************************************************************************)
InitPublish ==
    /\ IdleMatch
    /\ IdleDiff
    /\ IdleTag
    /\ IdleMain
    /\ pubArgs \in [quick : BOOLEAN, skip_cache_invalidation : BOOLEAN]
    /\ pubBuild \in {[read |-> TRUE, exists |-> TRUE, html |-> html,
                      dist |-> dist] :
                        html \in BuildTrees, dist \in DistTrees}
    /\ pubTarget \in TargetPriors
    /\ pubCalls = <<>>

\* lines 316-408: one call of copy_build_to_webroot from entry to return
Publish ==
    /\ Len(pubCalls) < MaxPublishes
    /\ \E rsync_ok \in BOOLEAN, mkdir_ok \in BOOLEAN, cp_ok \in BOOLEAN,
          find_ok \in BOOLEAN :
          LET diff == changed_files(pubBuild.html, pubTarget)
              copy == publish_copy(pubBuild, pubTarget, pubArgs.quick,
                                   rsync_ok, mkdir_ok, cp_ok)
              paths == diff \cup copy.appended
              wanted == /\ copy.exc = ""
                        /\ purge_wanted(paths, pubArgs.skip_cache_invalidation)
              find == shell_out("find", find_ok)
          IN  \* find is run only for a purge
              /\ ~wanted => find_ok
              /\ pubTarget' = copy.files
              /\ pubCalls' = Append(pubCalls,
                    [changed |-> IF copy.exc = "" THEN paths ELSE diff,
                     purged |-> wanted /\ find.ok,
                     exc |-> IF copy.exc # "" THEN copy.exc
                             \* prefixes is None: None.replace
                             ELSE IF wanted /\ ~find.ok THEN "AttributeError"
                             ELSE "",
                     ok |-> copy.ok /\ find.ok])
    /\ UNCHANGED <<pubArgs, pubBuild, matchVars, diffVars, tagVars, mainVars>>

NextPublish == Publish

SpecPublish == InitPublish /\ [][NextPublish]_vars

\* C12: when copy_build_to_webroot is called twice in succession for the
\* same build tree and every command of both calls succeeds, the list of
\* changed paths of the second call is empty and the second call issues no
\* purge, in quick mode and otherwise.
C12_PublishIdempotent ==
    (Len(pubCalls) >= 2 /\ pubCalls[1].ok /\ pubCalls[2].ok) =>
        /\ pubCalls[2].changed = {}
        /\ ~pubCalls[2].purged

\* in quick mode a second call that follows a call whose commands
\* succeeded finds nothing changed
QuickPublishIdempotent ==
    (Len(pubCalls) >= 2 /\ pubArgs.quick /\ pubCalls[1].ok) =>
        /\ pubCalls[2].changed = {}
        /\ ~pubCalls[2].purged

(***************************************************************************)
(* Calls of pep_545_tag_to_gettext_tag on every tag of the bounded length  *)
(***************************************************************************)
\* the characters the tags are written with: letters of both cases and
\* the region separator
TagChars == {"p", "t", "b", "r", "R", "-"}

Tags == UNION {[1..n -> TagChars] : n \in 0..MaxTagLen}

LowerCase ==
    <<"a", "b", "c", "d", "e", "f", "g", "h", "i", "j", "k", "l", "m",
      "n", "o", "p", "q", "r", "s", "t", "u", "v", "w", "x", "y", "z">>

UpperCase ==
    <<"A", "B", "C", "D", "E", "F", "G", "H", "I", "J", "K", "L", "M",
      "N", "O", "P", "Q", "R", "S", "T", "U", "V", "W", "X", "Y", "Z">>

\* str.upper on one character: a lowercase letter becomes its uppercase
\* letter, every other character stays
upper_char(c) ==
    IF \E i \in DOMAIN LowerCase : LowerCase[i] = c
    THEN UpperCase[CHOOSE i \in DOMAIN LowerCase : LowerCase[i] = c]
    ELSE c

\* line 194: region.upper()
upper(s) == [i \in DOMAIN s |-> upper_char(s[i])]

\* line 191: "-" not in tag, negated
contains(s, c) == \E i \in DOMAIN s : s[i] = c

RECURSIVE split(_, _)
\* line 193: tag.split("-"), the parts between the separators, empty
\* parts included
split(s, sep) ==
    IF ~contains(s, sep) THEN <<s>>
    ELSE LET k == CHOOSE i \in DOMAIN s :
                     s[i] = sep /\ \A j \in 1..(i - 1) : s[j] # sep
         IN  <<SubSeq(s, 1, k - 1)>> \o split(SubSeq(s, k + 1, Len(s)), sep)

\* the transform keeping the region as it is written
pep_545_tag_to_gettext_tag_mutant(tag) ==
    IF ~contains(tag, "-") THEN [exc |-> "", value |-> tag]
    ELSE LET parts == split(tag, "-")
         IN  IF Len(parts) # 2 THEN [exc |-> "ValueError", value |-> <<>>]
             ELSE [exc |-> "", value |-> parts[1] \o <<"_">> \o parts[2]]

\* lines 186-194: pep_545_tag_to_gettext_tag; unpacking the parts into
\* language, region raises ValueError when there are not two of them
pep_545_tag_to_gettext_tag(tag) ==
    IF ~contains(tag, "-") THEN [exc |-> "", value |-> tag]
    ELSE LET parts == split(tag, "-")
         IN  IF Len(parts) # 2 THEN [exc |-> "ValueError", value |-> <<>>]
             ELSE [exc |-> "",
                   value |-> parts[1] \o <<"_">> \o upper(parts[2])]

InitTag ==
    /\ IdleMatch
    /\ IdleDiff
    /\ IdlePub
    /\ IdleMain
    /\ tagIn \in Tags
    /\ tagOut = <<>>

\* line 270: one call of pep_545_tag_to_gettext_tag on the tag
Transform ==
    /\ Len(tagOut) < MaxTransforms
    /\ tagOut' = Append(tagOut, pep_545_tag_to_gettext_tag(tagIn))
    /\ UNCHANGED <<tagIn, matchVars, diffVars, pubVars, mainVars>>

NextTag == Transform

SpecTag == InitTag /\ [][NextTag]_vars

\* the number of region separators of a tag
Separators(tag) == Cardinality({i \in DOMAIN tag : tag[i] = "-"})

\* the catalog tag of a tag of the form language-region, the separator
\* being at the given place
CatalogTag(tag, k) ==
    SubSeq(tag, 1, k - 1) \o <<"_">>
        \o [i \in 1..(Len(tag) - k) |-> upper_char(tag[k + i])]

\* C18: a tag without the region separator '-' is returned unchanged; a
\* tag of the form language-region, with one separator, is returned as
\* language + '_' + uppercase(region); every call on the same tag returns
\* the same, and no returned catalog tag contains '-'.
C18_TagTransform ==
    \A n \in DOMAIN tagOut :
        /\ Separators(tagIn) = 0 =>
              tagOut[n] = [exc |-> "", value |-> tagIn]
        /\ Separators(tagIn) = 1 =>
              \E k \in DOMAIN tagIn :
                  /\ tagIn[k] = "-"
                  /\ tagOut[n] = [exc |-> "", value |-> CatalogTag(tagIn, k)]
        /\ tagOut[n].exc = "" =>
              \A i \in DOMAIN tagOut[n].value : tagOut[n].value[i] # "-"
        /\ tagOut[n] = tagOut[1]

\* "pt-br" transformed twice to "pt_BR"
C18_Witness ==
    /\ tagIn = <<"p", "t", "-", "b", "r">>
    /\ Len(tagOut) = 2
    /\ tagOut[2] = [exc |-> "", value |-> <<"p", "t", "_", "B", "R">>]

\* a tag with more than one separator has no catalog tag: the call raises
MoreSeparatorsRaise ==
    \A n \in DOMAIN tagOut :
        Separators(tagIn) > 1 <=> tagOut[n].exc = "ValueError"

====
